---------------------------- MODULE Spec2Model ----------------------------
(***************************************************************************)
(* FutureTools.io tracker: the scraper (src/scraper.py) as a state machine. *)
(*                                                                         *)
(* Text is modelled as a sequence of one-character strings, so that the    *)
(* substring tests, strip(), lower(), ", ".join() and split(", ") of the   *)
(* source are computed and not assumed.  An optional element (the result   *)
(* of BeautifulSoup's find) and an Optional[Dict] are sequences of length  *)
(* 0 (None) or 1.                                                          *)
(***************************************************************************)
EXTENDS Integers, Sequences, FiniteSets, TLC

(* ------------------------------ bounds --------------------------------- *)
\* longest rendered document, in cards
MaxCards == 2
\* the heights document.body.scrollHeight may report are 1..MaxHeight
MaxHeight == 2
\* threads holding the scraper instance
NumCallers == 2
\* browser sessions that can be open at once
MaxSessions == 2
MaxTime == 2



(* ------------------------- program constants --------------------------- *)
\* scrape_newly_added: self._scroll_to_load_all(max_scrolls=10)
NewlyAddedBudget == 10
\* _scroll_to_load_all(self, max_scrolls: int = 100)
DefaultBudget == 100
\* if no_change_count >= 3
StableLimit == 3

BASE_URL == <<"h","t","t","p","s",":","/","/","w","w","w",".","f","u","t","u","r","e","t","o","o","l","s",".","i","o">>

CATEGORIES ==
    << <<"A","I"," ","D","e","t","e","c","t","i","o","n">>,
       <<"A","g","g","r","e","g","a","t","o","r","s">>,
       <<"A","u","t","o","m","a","t","i","o","n"," ","&"," ","A","g","e","n","t","s">>,
       <<"A","v","a","t","a","r">>,
       <<"C","h","a","t">>,
       <<"C","o","p","y","w","r","i","t","i","n","g">>,
       <<"F","i","n","a","n","c","e">>,
       <<"F","o","r"," ","F","u","n">>,
       <<"G","a","m","i","n","g">>,
       <<"G","e","n","e","r","a","t","i","v","e"," ","A","r","t">>,
       <<"G","e","n","e","r","a","t","i","v","e"," ","C","o","d","e">>,
       <<"G","e","n","e","r","a","t","i","v","e"," ","V","i","d","e","o">>,
       <<"I","m","a","g","e"," ","I","m","p","r","o","v","e","m","e","n","t">>,
       <<"I","m","a","g","e"," ","S","c","a","n","n","i","n","g">>,
       <<"I","n","s","p","i","r","a","t","i","o","n">>,
       <<"M","a","r","k","e","t","i","n","g">>,
       <<"M","o","t","i","o","n"," ","C","a","p","t","u","r","e">>,
       <<"M","u","s","i","c">>,
       <<"P","o","d","c","a","s","t","i","n","g">>,
       <<"P","r","o","d","u","c","t","i","v","i","t","y">>,
       <<"P","r","o","m","p","t"," ","G","u","i","d","e","s">>,
       <<"R","e","s","e","a","r","c","h">>,
       <<"S","e","l","f","-","I","m","p","r","o","v","e","m","e","n","t">>,
       <<"S","o","c","i","a","l"," ","M","e","d","i","a">>,
       <<"S","p","e","e","c","h","-","T","o","-","T","e","x","t">>,
       <<"T","e","x","t","-","T","o","-","S","p","e","e","c","h">>,
       <<"T","r","a","n","s","l","a","t","i","o","n">>,
       <<"V","i","d","e","o"," ","E","d","i","t","i","n","g">>,
       <<"V","o","i","c","e"," ","M","o","d","u","l","a","t","i","o","n">> >>

PRICING_FILTERS ==
    << <<"F","r","e","e">>,
       <<"F","r","e","e","m","i","u","m">>,
       <<"G","i","t","H","u","b">>,
       <<"G","o","o","g","l","e"," ","C","o","l","a","b">>,
       <<"O","p","e","n"," ","S","o","u","r","c","e">>,
       <<"P","a","i","d">> >>

\* the table with 'freemium' listed before 'free trial'
pricing_keywords_freemium_first ==
    << <<<<"p","a","i","d">>, <<"P","a","i","d">>>>,
       <<<<"f","r","e","e","m","i","u","m">>, <<"F","r","e","e","m","i","u","m">>>>,
       <<<<"f","r","e","e"," ","t","r","i","a","l">>, <<"F","r","e","e"," ","T","r","i","a","l">>>>,
       <<<<"o","p","e","n"," ","s","o","u","r","c","e">>, <<"O","p","e","n"," ","S","o","u","r","c","e">>>>,
       <<<<"g","i","t","h","u","b">>, <<"G","i","t","H","u","b">>>> >>

\* pricing_keywords, in the dict's insertion order (the order of iteration)
pricing_keywords ==
    << <<<<"p","a","i","d">>, <<"P","a","i","d">>>>,
       <<<<"f","r","e","e"," ","t","r","i","a","l">>, <<"F","r","e","e"," ","T","r","i","a","l">>>>,
       <<<<"f","r","e","e","m","i","u","m">>, <<"F","r","e","e","m","i","u","m">>>>,
       <<<<"o","p","e","n"," ","s","o","u","r","c","e">>, <<"O","p","e","n"," ","S","o","u","r","c","e">>>>,
       <<<<"g","i","t","h","u","b">>, <<"G","i","t","H","u","b">>>> >>

kw_free == <<"f","r","e","e">>
kw_free_trial == <<"f","r","e","e"," ","t","r","i","a","l">>
label_Free == <<"F","r","e","e">>
Uncategorized == <<"U","n","c","a","t","e","g","o","r","i","z","e","d">>
CheckToolPage == <<"C","h","e","c","k"," ","t","o","o","l"," ","p","a","g","e">>
CommaSpace == <<","," ">>
placeholder_category == <<"c","a","t","e","g","o","r","y">>
tags_marker == <<"?","t","a","g","s","=">>
tools_prefix == <<"/","t","o","o","l","s","/">>

(* --------------------------- text primitives --------------------------- *)
UpperChars == <<"A","B","C","D","E","F","G","H","I","J","K","L","M","N","O","P","Q","R","S","T","U","V","W","X","Y","Z">>
LowerChars == <<"a","b","c","d","e","f","g","h","i","j","k","l","m","n","o","p","q","r","s","t","u","v","w","x","y","z">>

\* str.lower() on one character
LowerChar(c) ==
    IF \E i \in 1..26 : UpperChars[i] = c
    THEN LowerChars[CHOOSE i \in 1..26 : UpperChars[i] = c]
    ELSE c

\* str.lower()
Lower(s) == [i \in 1..Len(s) |-> LowerChar(s[i])]

\* needle in haystack (Python's substring test on str)
Contains(hay, needle) ==
    \E i \in 1..(Len(hay) - Len(needle) + 1) :
        SubSeq(hay, i, i + Len(needle) - 1) = needle

\* str.startswith
StartsWith(s, p) == Len(s) >= Len(p) /\ SubSeq(s, 1, Len(p)) = p

IsSpace(c) == c \in {" ", "\t", "\n"}

\* str.strip(): get_text(strip=True) of an element holding one text node
RECURSIVE LStrip(_)
LStrip(s) ==
    IF s # <<>> /\ IsSpace(s[1]) THEN LStrip(Tail(s)) ELSE s

RECURSIVE RStrip(_)
RStrip(s) ==
    IF s # <<>> /\ IsSpace(s[Len(s)]) THEN RStrip(SubSeq(s, 1, Len(s) - 1)) ELSE s

Strip(s) == RStrip(LStrip(s))

\* sep.join(parts)
RECURSIVE Join(_, _)
Join(parts, sep) ==
    IF parts = <<>> THEN <<>>
    ELSE IF Len(parts) = 1 THEN parts[1]
    ELSE parts[1] \o sep \o Join(Tail(parts), sep)

\* s.split(sep): cuts at every occurrence of sep, left to right
RECURSIVE Split(_, _)
Split(s, sep) ==
    IF Contains(s, sep)
    THEN LET i == CHOOSE k \in 1..(Len(s) - Len(sep) + 1) :
                      /\ SubSeq(s, k, k + Len(sep) - 1) = sep
                      /\ \A j \in 1..(k - 1) : SubSeq(s, j, j + Len(sep) - 1) # sep
         IN  <<SubSeq(s, 1, i - 1)>> \o Split(SubSeq(s, i + Len(sep), Len(s)), sep)
    ELSE <<s>>

\* x in list
InList(x, list) == \E i \in 1..Len(list) : list[i] = x

\* concatenation of a list of texts
RECURSIVE Concat(_)
Concat(parts) ==
    IF parts = <<>> THEN <<>> ELSE parts[1] \o Concat(Tail(parts))

(* ------------------------------ the card ------------------------------- *)
\* A card is what _parse_tool_card reads of a BeautifulSoup element:
\*   anchors   every <a>, in document order: [title, href, text], title = its
\*             class has "tool-item-link" and not "tool-item-link-block";
\*             href <<>> when the attribute is missing
\*   h3, h2    texts of the <h3> and <h2> elements
\*   desc      texts of the divs of class tool-item-description-box
\*   container the divs of class collection-list-8: [tb53, gc], the texts of
\*             their text-block-53 and black-text-db-gc divs
\*   extra     any other text of the card
\*   fault     an operation on the element raises during extraction

\* card.get_text(): all the text of the card (unstripped)
AllText(card) ==
    Concat([i \in 1..Len(card.anchors) |-> card.anchors[i].text])
    \o Concat(card.h3) \o Concat(card.h2) \o Concat(card.desc)
    \o Concat([i \in 1..Len(card.container) |->
                  Concat(card.container[i].tb53) \o Concat(card.container[i].gc)])
    \o card.extra

IsTitleLink(a) == a.title
HasTagsHref(a) == Contains(a.href, tags_marker)
HasToolsHref(a) == StartsWith(a.href, tools_prefix)

\* name_elem: card.find(title link), else card.find("h3") or card.find("h2");
\* the texts of the candidates in the order tried, name_elem is the first
NameElems(card) ==
    LET links == SelectSeq(card.anchors, IsTitleLink)
    IN  IF links # <<>> THEN <<links[1].text>>
        ELSE IF card.h3 # <<>> THEN <<card.h3[1]>>
        ELSE IF card.h2 # <<>> THEN <<card.h2[1]>>
        ELSE <<>>

\* the collection without the test that the text is non-empty
RECURSIVE CollectLabels_keep_blank(_, _, _)
CollectLabels_keep_blank(texts, skip, acc) ==
    IF texts = <<>> THEN acc
    ELSE LET t == Strip(texts[1])
         IN  CollectLabels_keep_blank(Tail(texts), skip,
                 IF ~InList(t, skip) /\ ~InList(t, acc)
                 THEN Append(acc, t) ELSE acc)

\* for t in texts: t = strip(t); if t and t not in skip and t not in acc: append
RECURSIVE CollectLabels(_, _, _)
CollectLabels(texts, skip, acc) ==
    IF texts = <<>> THEN acc
    ELSE LET t == Strip(texts[1])
         IN  CollectLabels(Tail(texts), skip,
                 IF t # <<>> /\ ~InList(t, skip) /\ ~InList(t, acc)
                 THEN Append(acc, t) ELSE acc)

\* the categories list that adds the link texts to the container labels
CategoryLabels_combined(card) ==
    LET category_divs ==
            IF card.container = <<>> THEN <<>>
            ELSE IF card.container[1].tb53 # <<>> THEN card.container[1].tb53
            ELSE card.container[1].gc
        fromContainer == CollectLabels(category_divs, <<>>, <<>>)
        category_links == SelectSeq(card.anchors, HasTagsHref)
        linkTexts == [i \in 1..Len(category_links) |-> category_links[i].text]
    IN  CollectLabels(linkTexts, << <<>>, placeholder_category >>, fromContainer)

\* the categories list built by lines 154-174
CategoryLabels(card) ==
    LET category_divs ==
            IF card.container = <<>> THEN <<>>
            ELSE IF card.container[1].tb53 # <<>> THEN card.container[1].tb53
            ELSE card.container[1].gc
        fromContainer == CollectLabels(category_divs, <<>>, <<>>)
        category_links == SelectSeq(card.anchors, HasTagsHref)
        linkTexts == [i \in 1..Len(category_links) |-> category_links[i].text]
    IN  IF fromContainer # <<>> THEN fromContainer
        ELSE CollectLabels(linkTexts, << <<>>, placeholder_category >>, <<>>)

\* for keyword, label in pricing_keywords.items(): ...
RECURSIVE ScanKeywords(_, _, _)
ScanKeywords(kws, all_text, acc) ==
    IF kws = <<>> THEN acc
    ELSE ScanKeywords(Tail(kws), all_text,
             IF Contains(all_text, kws[1][1]) /\ ~InList(kws[1][2], acc)
             THEN Append(acc, kws[1][2]) ELSE acc)

\* the pricing list built by lines 180-198
PricingLabels(card) ==
    LET all_text == Lower(AllText(card))
        pricing == ScanKeywords(pricing_keywords, all_text, <<>>)
    IN  IF pricing = <<>> /\ Contains(all_text, kw_free)
                          /\ ~Contains(all_text, kw_free_trial)
        THEN <<label_Free>>
        ELSE pricing

\* the url of lines 203-208
ToolUrl(card) ==
    LET link_elems == SelectSeq(card.anchors, HasToolsHref)
    IN  IF link_elems # <<>> THEN BASE_URL \o link_elems[1].href ELSE <<>>

\* _parse_tool_card: <<>> is None, <<record>> the dict.  scraped_at (the wall
\* clock at extraction) is left out of the record.
_parse_tool_card(card) ==
    IF card.fault THEN <<>>
    ELSE IF NameElems(card) = <<>> THEN <<>>
    ELSE LET categories == CategoryLabels(card)
             pricing == PricingLabels(card)
         IN  << [ name |-> Strip(NameElems(card)[1]),
                  description |-> IF card.desc # <<>> THEN Strip(card.desc[1]) ELSE <<>>,
                  categories |-> IF categories # <<>> THEN Join(categories, CommaSpace)
                                 ELSE Uncategorized,
                  pricing |-> IF pricing # <<>> THEN Join(pricing, CommaSpace)
                              ELSE CheckToolPage,
                  url |-> ToolUrl(card) ] >>

(* --------------------------- the entry points -------------------------- *)
\* A rendered document is a sequence of elements [sels, card]: sels is the set
\* of selector strategies (1..5, in the order of the cascade) the element
\* matches.

MatchesSelector(k, elem) == k \in elem.sels

\* soup.find_all(<strategy k>), in document order
FindAll(doc, k) ==
    LET Hit(e) == MatchesSelector(k, e)
        hits == SelectSeq(doc, Hit)
    IN  [i \in 1..Len(hits) |-> hits[i].card]

\* the cascade that gathers the matches of every strategy
RECURSIVE Cascade_merge(_, _)
Cascade_merge(doc, k) ==
    IF k = 5 THEN FindAll(doc, 5)
    ELSE FindAll(doc, k) \o Cascade_merge(doc, k + 1)

\* tool_cards = find_all(1) or find_all(2) or ... or find_all(5)
RECURSIVE Cascade(_, _)
Cascade(doc, k) ==
    IF k = 5 THEN FindAll(doc, 5)
    ELSE IF FindAll(doc, k) # <<>> THEN FindAll(doc, k)
    ELSE Cascade(doc, k + 1)

tool_cards(doc) == Cascade(doc, 1)

\* the cards the documents are made of
Anchor(title, href, text) == [title |-> title, href |-> href, text |-> text]

EmptyCard ==
    [anchors |-> <<>>, h3 |-> <<>>, h2 |-> <<>>, desc |-> <<>>,
     container |-> <<>>, extra |-> <<>>, fault |-> FALSE]

\* title link, container labels with a repeat, a tag link, two pricing
\* keywords
card_chat ==
    [EmptyCard EXCEPT
        !.anchors = <<Anchor(TRUE, <<"/","t","o","o","l","s","/","c","h","a","t","l","y">>, <<"C","h","a","t","l","y">>),
                      Anchor(FALSE, <<"/","?","t","a","g","s","=","5">>, <<"M","a","r","k","e","t","i","n","g">>)>>,
        !.desc = <<<<" ","A"," ","h","e","l","p","e","r"," ">>>>,
        !.container = <<[tb53 |-> <<<<"C","h","a","t">>, <<"P","r","o","d","u","c","t","i","v","i","t","y">>, <<"C","h","a","t">>>>, gc |-> <<>>]>>,
        !.extra = <<"F","r","e","e","m","i","u","m",","," ","f","r","e","e"," ","t","r","i","a","l"," ","p","r","i","c","i","n","g"," ","a","v","a","i","l","a","b","l","e">>]

\* heading only, categories from tag links (one blank, one placeholder)
card_free ==
    [EmptyCard EXCEPT
        !.h3 = <<<<"N","o","t","e","s">>>>,
        !.anchors = <<Anchor(FALSE, <<"/","?","t","a","g","s","=","1">>, <<" ">>),
                      Anchor(FALSE, <<"/","?","t","a","g","s","=","2">>, <<"c","a","t","e","g","o","r","y">>),
                      Anchor(FALSE, <<"/","?","t","a","g","s","=","3">>, <<"R","e","s","e","a","r","c","h">>)>>,
        !.extra = <<"c","o","m","p","l","e","t","e","l","y"," ","f","r","e","e"," ","t","o"," ","u","s","e">>]

\* a title link whose text is blank, beside a heading with text
card_blank ==
    [EmptyCard EXCEPT
        !.anchors = <<Anchor(TRUE, <<"/","t","o","o","l","s","/","x">>, <<" "," ">>)>>,
        !.h3 = <<<<"R","e","a","l">>>>]

\* no title link and no heading
card_noname == [EmptyCard EXCEPT !.desc = <<<<"o","r","p","h","a","n"," ","t","e","x","t">>>>]

\* extraction raises
card_fault ==
    [EmptyCard EXCEPT
        !.anchors = <<Anchor(TRUE, <<"/","t","o","o","l","s","/","b","o","o","m">>, <<"B","o","o","m">>)>>,
        !.fault = TRUE]

\* a category outside CATEGORIES, second label-class variant, no pricing text
card_robot ==
    [EmptyCard EXCEPT
        !.anchors = <<Anchor(TRUE, <<>>, <<"R","o","b","o">>)>>,
        !.container = <<[tb53 |-> <<>>, gc |-> <<<<"R","o","b","o","t","i","c","s">>>>]>>]

\* nothing but a second-level heading
card_plain == [EmptyCard EXCEPT !.h2 = <<<<"P","l","a","i","n">>>>]

\* blank container label, tag link, keywords in the name and the text
card_git ==
    [EmptyCard EXCEPT
        !.anchors = <<Anchor(TRUE, <<"/","t","o","o","l","s","/","c","o","p","i","l","o","t">>, <<"G","i","t","H","u","b"," ","C","o","p","i","l","o","t">>),
                      Anchor(FALSE, <<"/","?","t","a","g","s","=","9">>, <<"G","e","n","e","r","a","t","i","v","e"," ","C","o","d","e">>)>>,
        !.container = <<[tb53 |-> <<<<" ">>>>, gc |-> <<<<"I","g","n","o","r","e","d">>>>]>>,
        !.extra = <<"p","a","i","d"," ","p","l","a","n","s">>]

Cards ==
    {card_chat, card_free, card_blank, card_noname, card_fault, card_robot,
     card_plain, card_git}

\* self._parse_tool_card(card) for each card a document can hold
tool_data_of == [card \in Cards |-> _parse_tool_card(card)]

\* the loop without the per-card containment: the first failing card ends it
RECURSIVE ExtractLoop_abort(_, _)
ExtractLoop_abort(cards, tools) ==
    IF cards = <<>> THEN tools
    ELSE IF cards[1].fault THEN tools
    ELSE LET tool_data == tool_data_of[cards[1]]
         IN  ExtractLoop_abort(Tail(cards),
                 IF tool_data # <<>> THEN Append(tools, tool_data[1]) ELSE tools)

\* for card in tool_cards: tool_data = parse(card); if tool_data: append
RECURSIVE ExtractLoop(_, _)
ExtractLoop(cards, tools) ==
    IF cards = <<>> THEN tools
    ELSE LET tool_data == tool_data_of[cards[1]]
         IN  ExtractLoop(Tail(cards),
                 IF tool_data # <<>> THEN Append(tools, tool_data[1]) ELSE tools)

\* any(x in wanted for x in joined.split(", "))
AnyLabelIn(joined, wanted) ==
    LET labels == Split(joined, CommaSpace)
    IN  \E i \in 1..Len(labels) : InList(labels[i], wanted)

\* a record passing either filter is kept
PassesFilters_either(tool_data, categories, pricing_filters) ==
    \/ (categories # <<>> /\ categories # CATEGORIES)
          => \E i \in 1..Len(Split(tool_data.categories, CommaSpace)) :
                InList(Split(tool_data.categories, CommaSpace)[i], categories)
    \/ (pricing_filters # <<>> /\ pricing_filters[1] # <<>>)
          => \E i \in 1..Len(Split(tool_data.pricing, CommaSpace)) :
                InList(Split(tool_data.pricing, CommaSpace)[i], pricing_filters[1])

\* only the category filter is applied
PassesFilters_category_only(tool_data, categories, pricing_filters) ==
    (categories # <<>> /\ categories # CATEGORIES)
        => \E i \in 1..Len(Split(tool_data.categories, CommaSpace)) :
              InList(Split(tool_data.categories, CommaSpace)[i], categories)

\* lines 309-319: the record passes both filters.  categories is the local
\* after line 277 (never None); pricing_filters is <<>> for None, <<list>>
\* for a list.
PassesFilters(tool_data, categories, pricing_filters) ==
    /\ (categories # <<>> /\ categories # CATEGORIES)
          => AnyLabelIn(tool_data.categories, categories)
    /\ (pricing_filters # <<>> /\ pricing_filters[1] # <<>>)
          => AnyLabelIn(tool_data.pricing, pricing_filters[1])

\* the loop of lines 306-321
RECURSIVE FilterLoop(_, _, _, _)
FilterLoop(cards, categories, pricing_filters, all_tools) ==
    IF cards = <<>> THEN all_tools
    ELSE LET tool_data == tool_data_of[cards[1]]
         IN  FilterLoop(Tail(cards), categories, pricing_filters,
                 IF tool_data # <<>>
                    /\ PassesFilters(tool_data[1], categories, pricing_filters)
                 THEN Append(all_tools, tool_data[1]) ELSE all_tools)

\* line 276-277: if categories is None: categories = self.CATEGORIES
DefaultCategories(categories) ==
    IF categories = <<>> THEN CATEGORIES ELSE categories[1]

\* the records an entry point collects from the rendered document
Collect(entry, doc, categories, pricing_filters) ==
    IF entry = "scrape_by_category"
    THEN FilterLoop(tool_cards(doc), DefaultCategories(categories), pricing_filters, <<>>)
    ELSE ExtractLoop(tool_cards(doc), <<>>)

\* the scroll budget each entry point passes to _scroll_to_load_all
Budget(entry) ==
    IF entry = "scrape_newly_added" THEN NewlyAddedBudget ELSE DefaultBudget

(* ------------------------------- inputs -------------------------------- *)
\* the elements a rendered document is made of
Elements ==
    {[sels |-> {1}, card |-> c] : c \in Cards}
    \cup {[sels |-> {2, 3}, card |-> card_plain], [sels |-> {5}, card |-> card_free],
          [sels |-> {}, card |-> card_noname]}

RECURSIVE SeqsUpTo(_, _)
SeqsUpTo(S, n) ==
    IF n = 0 THEN {<<>>}
    ELSE LET shorter == SeqsUpTo(S, n - 1)
         IN  shorter \cup {Append(q, e) : q \in shorter, e \in S}

Docs == SeqsUpTo(Elements, MaxCards)

Heights == 1..MaxHeight

\* the categories argument: <<>> is None, <<list>> a list
CategoryArgs ==
    { <<>>, << <<>> >>, <<CATEGORIES>>, << <<<<"C","h","a","t">>, <<"C","o","p","y","w","r","i","t","i","n","g">>>> >>,
      << <<<<"R","o","b","o","t","i","c","s">>>> >> }

\* the pricing_filters argument
PricingArgs ==
    { <<>>, << <<<<"F","r","e","e">>, <<"P","a","i","d">>>> >>, << <<<<"F","r","e","e"," ","T","r","i","a","l">>>> >>,
      << <<<<"G","o","o","g","l","e"," ","C","o","l","a","b">>, <<"E","n","t","e","r","p","r","i","s","e">>>> >> }

Entries == {"scrape_newly_added", "scrape_all_tools", "scrape_by_category"}

(* ------------------------------ the state ------------------------------ *)
\* threads that may call the one FutureToolsScraper instance, and the browser
\* sessions that can be open at once.  The program itself (app.py, __main__)
\* makes every call from one thread, MainCaller.
Callers == 1..NumCallers
MainCaller == 1

VARIABLES
    driver,     \* self.driver: <<>> is None, <<sid>> a WebDriver
    sessions,   \* the browser sessions started and not yet quit
    pc,         \* each caller's position in its scrape call
    frame,      \* each caller's arguments, locals and record of the call
    tools_data,     \* app.py, st.session_state.tools_data
    last_update,    \* st.session_state.last_update: <<>> is None
    cache_csv,      \* futuretools_cache.csv: <<>> no file, <<rows>> its rows
    cache_metadata, \* cache_metadata.json: <<>> no file, <<metadata>>
    clicked         \* the button the dashboard handled last, and what the
                    \* scrape returned (read by the properties only)

scrapervars == <<driver, sessions, pc, frame>>
appvars == <<tools_data, last_update, cache_csv, cache_metadata, clicked>>
vars == <<driver, sessions, pc, frame,
          tools_data, last_update, cache_csv, cache_metadata, clicked>>

\* frame fields.  Arguments and locals of the source:
\*   entry, categories, pricing_filters, max_scrolls, last_height, scrolls,
\*   no_change_count, tools (tools / all_tools)
\* Record of the call, read by the properties only:
\*   sid       the session this call started (<<>> none)
\*   doc       the document page_source returned (<<>> not reached)
\*   fail      the exception caught by the entry point's except clause
\*   swallowed the exception caught by the bare except of the scroll loop
\*   exit      how the scroll loop ended
\*   attempts  executions of window.scrollTo
\*   hist      the last StableLimit attempts: "C" height changed, "U" height
\*             unchanged, "K" height unchanged and load-more clicked
\*   raised    an exception leaves the entry point
\*   met       what the load-more lookup of the last iteration met ("none"
\*             also when the iteration did not reach the lookup)
\*   clicks    successful clicks of the load-more control in this run
\*   tool_cards the card list the selector cascade gave
IdleFrame ==
    [entry |-> "none", categories |-> <<>>, pricing_filters |-> <<>>,
     max_scrolls |-> 0, last_height |-> 0, scrolls |-> 0, no_change_count |-> 0,
     tools |-> <<>>, sid |-> <<>>, doc |-> <<>>, fail |-> "none",
     swallowed |-> "none", exit |-> "none", attempts |-> 0, hist |-> <<>>,
     raised |-> FALSE, met |-> "none", clicks |-> 0, tool_cards |-> <<>>]

\* no button of the dashboard has been handled
NotClicked == [kind |-> "none", result |-> <<>>]

\* a FutureToolsScraper has been constructed and no call made; a dashboard
\* session has begun with no cache on disk
Init ==
    /\ driver = <<>>
    /\ sessions = {}
    /\ pc = [c \in Callers |-> "idle"]
    /\ frame = [c \in Callers |-> IdleFrame]
    /\ tools_data = <<>>
    /\ last_update = <<>>
    /\ cache_csv = <<>>
    /\ cache_metadata = <<>>
    /\ clicked = NotClicked

\* the session handle can be used: self.driver is not None and the session it
\* refers to has not been quit
HasDriver == driver # <<>> /\ driver[1] \in sessions

(* -------------------------- session management ------------------------- *)
\* _setup_driver releasing the session the handle refers to before it starts
\* its own
_setup_driver_release(sid) ==
    [driver |-> <<sid>>,
     sessions |-> (sessions \ {driver[i] : i \in 1..Len(driver)}) \cup {sid}]

\* _setup_driver, webdriver.Chrome(...) succeeding: self.driver = <new session>
_setup_driver(sid) == [driver |-> <<sid>>, sessions |-> sessions \cup {sid}]

\* the handle is cleared but the browser is not quit
_close_driver_noquit(d, open) == [driver |-> <<>>, sessions |-> open]

\* _close_driver: if self.driver: self.driver.quit(); self.driver = None.
\* ChromiumDriver.quit() swallows its own errors, so quit does not raise.
_close_driver(d, open) ==
    IF d # <<>> THEN [driver |-> <<>>, sessions |-> open \ {d[1]}]
    ELSE [driver |-> d, sessions |-> open]

\* the handler logs and raises again
except_handler_reraise(f, kind) ==
    [f EXCEPT !.fail = kind, !.raised = TRUE,
              !.last_height = 0, !.scrolls = 0, !.no_change_count = 0,
              !.attempts = 0, !.hist = <<>>, !.met = "none", !.clicks = 0]

\* except Exception as e: print(...) -- the exception is logged and dropped;
\* the locals of _scroll_to_load_all are gone
except_handler(f, kind) ==
    [f EXCEPT !.fail = kind, !.raised = FALSE,
              !.last_height = 0, !.scrolls = 0, !.no_change_count = 0,
              !.attempts = 0, !.hist = <<>>, !.met = "none", !.clicks = 0]

(* ------------------------------ the calls ------------------------------ *)
\* A caller invokes an entry point; calls are serialized: one begins only
\* when no call is in flight.
Begin(c) ==
    /\ \A d \in Callers : pc[d] = "idle"
    /\ \E e \in Entries, cats \in CategoryArgs, prices \in PricingArgs :
          /\ e # "scrape_by_category" => cats = <<>> /\ prices = <<>>
          /\ frame' = [frame EXCEPT ![c] =
                          [IdleFrame EXCEPT !.entry = e, !.categories = cats,
                                            !.pricing_filters = prices]]
    /\ pc' = [pc EXCEPT ![c] = "setup"]
    /\ UNCHANGED <<driver, sessions>>
    /\ UNCHANGED appvars

\* self._setup_driver() succeeds
SetupOk(c) ==
    /\ pc[c] = "setup"
    /\ \E sid \in 1..MaxSessions :
          /\ sid \notin sessions
          /\ \A other \in 1..(sid - 1) : other \in sessions
          /\ driver' = _setup_driver(sid).driver
          /\ sessions' = _setup_driver(sid).sessions
          /\ frame' = [frame EXCEPT ![c].sid = <<sid>>]
    /\ pc' = [pc EXCEPT ![c] = "get"]
    /\ UNCHANGED appvars

\* self._setup_driver() raises before self.driver is assigned
SetupFails(c) ==
    /\ pc[c] = "setup"
    /\ frame' = [frame EXCEPT ![c] = except_handler(@, "setup")]
    /\ pc' = [pc EXCEPT ![c] = "finally"]
    /\ UNCHANGED <<driver, sessions>>
    /\ UNCHANGED appvars

\* self.driver.get(url); time.sleep(3)
GetOk(c) ==
    /\ pc[c] = "get"
    /\ HasDriver
    /\ pc' = [pc EXCEPT ![c] = "scroll_start"]
    /\ UNCHANGED <<driver, sessions, frame>>
    /\ UNCHANGED appvars

\* self.driver.get(url) raises
GetFails(c) ==
    /\ pc[c] = "get"
    /\ frame' = [frame EXCEPT ![c] = except_handler(@, "navigation")]
    /\ pc' = [pc EXCEPT ![c] = "finally"]
    /\ UNCHANGED <<driver, sessions>>
    /\ UNCHANGED appvars

(* --------------------------- _scroll_to_load_all ----------------------- *)
\* what the load-more lookup of lines 107-112 meets:
\*   none           find_elements returns no element
\*   hidden         the first element is not displayed
\*   visible        it is displayed, the click and the height read succeed
\*   lookup_raises  find_elements or is_displayed raises
\*   click_raises   click raises
\*   reread_raises  execute_script after the click raises
Controls ==
    {"none", "hidden", "visible", "lookup_raises", "click_raises", "reread_raises"}

\* the error the bare except of line 116 catches, if any
Swallowed(control) ==
    CASE control = "lookup_raises" -> "lookup"
      [] control = "click_raises" -> "click"
      [] control = "reread_raises" -> "script"
      [] OTHER -> "none"

\* the record of the last StableLimit attempts
Push(hist, a) ==
    IF Len(hist) < StableLimit THEN Append(hist, a) ELSE Append(Tail(hist), a)

\* the loop condition off by one
LoopContinues_le(f) == f.scrolls <= f.max_scrolls

\* while scrolls < max_scrolls
LoopContinues(f) == f.scrolls < f.max_scrolls

\* the iteration without the reset of no_change_count on a changed height
scroll_iteration_noreset(f, new_height, control, reread) ==
    IF new_height = f.last_height
    THEN IF f.no_change_count + 1 >= StableLimit
         THEN IF control = "visible"
              THEN [f EXCEPT !.no_change_count = 0,
                             !.last_height = reread,
                             !.scrolls = @ + 1,
                             !.attempts = @ + 1,
                             !.hist = Push(@, "K"),
                             !.met = control,
                             !.clicks = @ + 1]
              ELSE [f EXCEPT !.no_change_count = @ + 1,
                             !.attempts = @ + 1,
                             !.hist = Push(@, "U"),
                             !.met = control,
                             !.clicks = IF control = "reread_raises" THEN @ + 1 ELSE @,
                             !.swallowed = Swallowed(control),
                             !.exit = IF Swallowed(control) = "none"
                                      THEN "stable" ELSE "swallowed"]
         ELSE [f EXCEPT !.no_change_count = @ + 1,
                        !.last_height = new_height,
                        !.scrolls = @ + 1,
                        !.attempts = @ + 1,
                        !.hist = Push(@, "U"),
                        !.met = "none"]
    ELSE [f EXCEPT !.last_height = new_height,
                   !.scrolls = @ + 1,
                   !.attempts = @ + 1,
                   !.hist = Push(@, "C"),
                   !.met = "none"]

\* the iteration that keeps no_change_count after a click
scroll_iteration_click_noreset(f, new_height, control, reread) ==
    IF new_height = f.last_height
    THEN IF f.no_change_count + 1 >= StableLimit
         THEN IF control = "visible"
              THEN [f EXCEPT !.no_change_count = @ + 1,
                             !.last_height = reread,
                             !.scrolls = @ + 1,
                             !.attempts = @ + 1,
                             !.hist = Push(@, "K"),
                             !.met = control,
                             !.clicks = @ + 1]
              ELSE [f EXCEPT !.no_change_count = @ + 1,
                             !.attempts = @ + 1,
                             !.hist = Push(@, "U"),
                             !.met = control,
                             !.clicks = IF control = "reread_raises" THEN @ + 1 ELSE @,
                             !.swallowed = Swallowed(control),
                             !.exit = IF Swallowed(control) = "none"
                                      THEN "stable" ELSE "swallowed"]
         ELSE [f EXCEPT !.no_change_count = @ + 1,
                        !.last_height = new_height,
                        !.scrolls = @ + 1,
                        !.attempts = @ + 1,
                        !.hist = Push(@, "U"),
                        !.met = "none"]
    ELSE [f EXCEPT !.no_change_count = 0,
                   !.last_height = new_height,
                   !.scrolls = @ + 1,
                   !.attempts = @ + 1,
                   !.hist = Push(@, "C"),
                   !.met = "none"]

\* the iteration that stops at the third unchanged attempt without looking
\* for a load-more control
scroll_iteration_nolookup(f, new_height, control, reread) ==
    IF new_height = f.last_height
    THEN IF f.no_change_count + 1 >= StableLimit
         THEN [f EXCEPT !.no_change_count = @ + 1,
                        !.attempts = @ + 1,
                        !.hist = Push(@, "U"),
                        !.met = control,
                        !.exit = "stable"]
         ELSE [f EXCEPT !.no_change_count = @ + 1,
                        !.last_height = new_height,
                        !.scrolls = @ + 1,
                        !.attempts = @ + 1,
                        !.hist = Push(@, "U"),
                        !.met = "none"]
    ELSE [f EXCEPT !.no_change_count = 0,
                   !.last_height = new_height,
                   !.scrolls = @ + 1,
                   !.attempts = @ + 1,
                   !.hist = Push(@, "C"),
                   !.met = "none"]

\* one iteration of the while loop, lines 92-122, whose scrollTo and height
\* read succeeded: new_height is the height read at line 99, control what the
\* load-more lookup meets, reread the height read at line 112.  exit # "none"
\* is a break.
scroll_iteration(f, new_height, control, reread) ==
    IF new_height = f.last_height
    THEN IF f.no_change_count + 1 >= StableLimit
         THEN IF control = "visible"
              THEN [f EXCEPT !.no_change_count = 0,
                             !.last_height = reread,
                             !.scrolls = @ + 1,
                             !.attempts = @ + 1,
                             !.hist = Push(@, "K"),
                             !.met = control,
                             !.clicks = @ + 1]
              ELSE [f EXCEPT !.no_change_count = @ + 1,
                             !.attempts = @ + 1,
                             !.hist = Push(@, "U"),
                             !.met = control,
                             !.clicks = IF control = "reread_raises" THEN @ + 1 ELSE @,
                             !.swallowed = Swallowed(control),
                             !.exit = IF Swallowed(control) = "none"
                                      THEN "stable" ELSE "swallowed"]
         ELSE [f EXCEPT !.no_change_count = @ + 1,
                        !.last_height = new_height,
                        !.scrolls = @ + 1,
                        !.attempts = @ + 1,
                        !.hist = Push(@, "U"),
                        !.met = "none"]
    ELSE [f EXCEPT !.no_change_count = 0,
                   !.last_height = new_height,
                   !.scrolls = @ + 1,
                   !.attempts = @ + 1,
                   !.hist = Push(@, "C"),
                   !.met = "none"]

\* the iteration reaches the load-more lookup of line 107: only then do the
\* control and the second height read exist
LookupReached(f, new_height) ==
    new_height = f.last_height /\ f.no_change_count + 1 >= StableLimit

\* line 87-89: the first height read succeeds
ScrollStart(c) ==
    /\ pc[c] = "scroll_start"
    /\ HasDriver
    /\ \E h \in Heights :
          frame' = [frame EXCEPT ![c] =
                       [@ EXCEPT !.max_scrolls = Budget(frame[c].entry),
                                 !.last_height = h,
                                 !.scrolls = 0,
                                 !.no_change_count = 0]]
    /\ pc' = [pc EXCEPT ![c] = "scroll"]
    /\ UNCHANGED <<driver, sessions>>
    /\ UNCHANGED appvars

\* line 87: the first height read raises
ScrollStartFails(c) ==
    /\ pc[c] = "scroll_start"
    /\ frame' = [frame EXCEPT ![c] = except_handler(@, "script")]
    /\ pc' = [pc EXCEPT ![c] = "finally"]
    /\ UNCHANGED <<driver, sessions>>
    /\ UNCHANGED appvars

\* one iteration of the loop
ScrollIter(c) ==
    /\ pc[c] = "scroll"
    /\ LoopContinues(frame[c])
    /\ HasDriver
    /\ \E h \in Heights :
       \E control \in (IF LookupReached(frame[c], h) THEN Controls ELSE {"none"}) :
       \E reread \in (IF control = "visible" THEN Heights ELSE {h}) :
          LET f == scroll_iteration(frame[c], h, control, reread)
          IN  /\ frame' = [frame EXCEPT ![c] = f]
              /\ pc' = [pc EXCEPT ![c] = IF f.exit # "none" THEN "scrolled" ELSE "scroll"]
    /\ UNCHANGED <<driver, sessions>>
    /\ UNCHANGED appvars

\* lines 93, 99: scrollTo or the height read raises, outside the inner try
ScrollFails(c) ==
    /\ pc[c] = "scroll"
    /\ LoopContinues(frame[c])
    /\ frame' = [frame EXCEPT ![c] =
                    except_handler([@ EXCEPT !.attempts = @ + 1], "script")]
    /\ pc' = [pc EXCEPT ![c] = "finally"]
    /\ UNCHANGED <<driver, sessions>>
    /\ UNCHANGED appvars

\* the while condition fails: the budget is used up
ScrollExhausted(c) ==
    /\ pc[c] = "scroll"
    /\ ~LoopContinues(frame[c])
    /\ frame' = [frame EXCEPT ![c].exit = "budget"]
    /\ pc' = [pc EXCEPT ![c] = "scrolled"]
    /\ UNCHANGED <<driver, sessions>>
    /\ UNCHANGED appvars

\* _scroll_to_load_all returns None to the entry point: its locals are gone
ScrollReturn(c) ==
    /\ pc[c] = "scrolled"
    /\ frame' = [frame EXCEPT ![c] =
                    [@ EXCEPT !.last_height = 0, !.scrolls = 0,
                              !.no_change_count = 0, !.attempts = 0,
                              !.hist = <<>>, !.met = "none", !.clicks = 0]]
    /\ pc' = [pc EXCEPT ![c] = "source"]
    /\ UNCHANGED <<driver, sessions>>
    /\ UNCHANGED appvars

(* ------------------------ parsing and the return ----------------------- *)
\* self.driver.page_source, BeautifulSoup, the selector cascade and the loop
\* over the cards
ParsePage(c, docs) ==
    /\ pc[c] = "source"
    /\ HasDriver
    /\ \E doc \in docs :
          frame' = [frame EXCEPT ![c] =
                       [@ EXCEPT !.doc = <<doc>>,
                                 !.tool_cards = tool_cards(doc),
                                 !.tools = Collect(frame[c].entry, doc,
                                                   frame[c].categories,
                                                   frame[c].pricing_filters)]]
    /\ pc' = [pc EXCEPT ![c] = "finally"]
    /\ UNCHANGED <<driver, sessions>>
    /\ UNCHANGED appvars

\* whatever document the site serves
Parse(c) == ParsePage(c, Docs)

\* self.driver.page_source or the parser raises
ParseFails(c) ==
    /\ pc[c] = "source"
    /\ frame' = [frame EXCEPT ![c] = except_handler(@, "source")]
    /\ pc' = [pc EXCEPT ![c] = "finally"]
    /\ UNCHANGED <<driver, sessions>>
    /\ UNCHANGED appvars

\* finally: self._close_driver(); return tools
Finally(c) ==
    /\ pc[c] = "finally"
    /\ driver' = _close_driver(driver, sessions).driver
    /\ sessions' = _close_driver(driver, sessions).sessions
    /\ pc' = [pc EXCEPT ![c] = "returned"]
    /\ UNCHANGED frame
    /\ UNCHANGED appvars

\* the caller takes the returned list; the call's frame is gone
Return(c) ==
    /\ pc[c] = "returned"
    /\ frame' = [frame EXCEPT ![c] = IdleFrame]
    /\ pc' = [pc EXCEPT ![c] = "idle"]
    /\ UNCHANGED <<driver, sessions>>
    /\ UNCHANGED appvars

\* the program: every call is made by the one thread
Next ==
    \/ Begin(MainCaller)
    \/ SetupOk(MainCaller)
    \/ SetupFails(MainCaller)
    \/ GetOk(MainCaller)
    \/ GetFails(MainCaller)
    \/ ScrollStart(MainCaller)
    \/ ScrollStartFails(MainCaller)
    \/ ScrollIter(MainCaller)
    \/ ScrollFails(MainCaller)
    \/ ScrollExhausted(MainCaller)
    \/ ScrollReturn(MainCaller)
    \/ Parse(MainCaller)
    \/ ParseFails(MainCaller)
    \/ Finally(MainCaller)
    \/ Return(MainCaller)

Spec == Init /\ [][Next]_vars

(* --------------------------- overlapping calls ------------------------- *)
\* Two threads call entry points of the one instance without serializing
\* their calls.  The steps of a call are the actions above; _close_driver is
\* taken statement by statement, since the other thread can run between the
\* quit and the assignment of None.
SecondCaller == 2

\* an entry point is called whatever the other thread is doing
BeginOverlapping(c) ==
    /\ pc[c] = "idle"
    /\ \E e \in Entries :
          frame' = [frame EXCEPT ![c] = [IdleFrame EXCEPT !.entry = e]]
    /\ pc' = [pc EXCEPT ![c] = "setup"]
    /\ UNCHANGED <<driver, sessions>>
    /\ UNCHANGED appvars

\* finally: _close_driver, lines 81-82: if self.driver: self.driver.quit()
FinallyQuit(c) ==
    /\ pc[c] = "finally"
    /\ sessions' = _close_driver(driver, sessions).sessions
    /\ pc' = [pc EXCEPT ![c] = IF driver # <<>> THEN "closing" ELSE "returned"]
    /\ UNCHANGED <<driver, frame>>
    /\ UNCHANGED appvars

\* _close_driver, line 83: self.driver = None; return tools
FinallyClear(c) ==
    /\ pc[c] = "closing"
    /\ driver' = <<>>
    /\ pc' = [pc EXCEPT ![c] = "returned"]
    /\ UNCHANGED <<sessions, frame>>
    /\ UNCHANGED appvars

\* The pages the overlapping calls are followed on never grow and show no
\* card: a call's scroll loop ends at its third attempt, before the budget
\* is used up.
StillPage(c) == frame'[c].no_change_count = frame'[c].attempts

NoCards == {<<>>}

NextConcurrent ==
    \E c \in {MainCaller, SecondCaller} :
       \/ BeginOverlapping(c)
       \/ SetupOk(c)
       \/ SetupFails(c)
       \/ GetOk(c)
       \/ GetFails(c)
       \/ ScrollStart(c)
       \/ ScrollStartFails(c)
       \/ ScrollIter(c) /\ StillPage(c)
       \/ ScrollFails(c)
       \/ ScrollReturn(c)
       \/ ParsePage(c, NoCards)
       \/ ParseFails(c)
       \/ FinallyQuit(c)
       \/ FinallyClear(c)
       \/ Return(c)

SpecConcurrent == Init /\ [][NextConcurrent]_vars

(* ----------------------------- the dashboard --------------------------- *)
\* app.py.  One browser session of the dashboard: Streamlit runs main() from
\* the top at every interaction, with st.session_state kept between the runs
\* and the two cache files on disk.  A dashboard state is a record
\* [tools_data, last_update, cache_csv, cache_metadata].  The handler of a
\* button makes its own FutureToolsScraper, so the scraper's state does not
\* outlive it; scraping_in_progress is False whenever main() begins.

\* what an entry point called by the dashboard can return: [] after a failure,
\* else the records of the cards of the page
ScrapeResults ==
    {<<>>} \cup {Collect(e, doc, <<>>, <<>>) :
                    e \in {"scrape_newly_added", "scrape_all_tools"}, doc \in Docs}

\* datetime.now() formatted: the seconds the clock can show
Times == 1..MaxTime

\* what pandas reads back for an empty field
NaN == <<"nan">>

\* the columns of the file, in the order the record is built
Columns == <<"name", "description", "categories", "pricing", "url">>

\* df.to_csv(filename, index=False): one row of cells for each record
to_csv(tools) ==
    [i \in 1..Len(tools) |-> [k \in 1..Len(Columns) |-> tools[i][Columns[k]]]]

\* pd.read_csv(filename).to_dict('records'): an empty cell is read as NaN
read_csv(rows) ==
    [i \in 1..Len(rows) |->
        [f \in {Columns[k] : k \in 1..Len(Columns)} |->
            LET k == CHOOSE k \in 1..Len(Columns) : Columns[k] = f
            IN  IF rows[i][k] = <<>> THEN NaN ELSE rows[i][k]]]

\* scraper.py save_to_csv: nothing is written for an empty list
save_to_csv(tools, file) == IF tools = <<>> THEN file ELSE <<to_csv(tools)>>

\* scraper.py load_from_csv: [] when the file does not exist
load_from_csv(file) == IF file = <<>> THEN <<>> ELSE read_csv(file[1])

\* app.py load_cached_data
load_cached_data(st) ==
    IF st.cache_csv # <<>> /\ load_from_csv(st.cache_csv) # <<>>
    THEN [st EXCEPT !.tools_data = load_from_csv(st.cache_csv),
                    !.last_update = IF st.cache_metadata # <<>>
                                    THEN <<st.cache_metadata[1].last_update>>
                                    ELSE @]
    ELSE st

\* main, lines 150-152: the cache is loaded when the session holds no records
startup(st) == IF st.tools_data = <<>> THEN load_cached_data(st) ELSE st

\* app.py save_cached_data(tools) at the time now
save_cached_data(st, tools, now) ==
    [st EXCEPT !.cache_csv = save_to_csv(tools, @),
               !.cache_metadata = <<[last_update |-> now, tool_count |-> Len(tools)]>>,
               !.last_update = <<now>>]

\* the handler that stores and saves whatever the scrape returned
scrape_button_unguarded(st, tools, now) ==
    save_cached_data([st EXCEPT !.tools_data = tools], tools, now)

\* main, lines 175-196, from the return of the entry point on
scrape_button(st, tools, now) ==
    IF tools # <<>>
    THEN save_cached_data([st EXCEPT !.tools_data = tools], tools, now)
    ELSE st

\* main, lines 208-216
clear_cache_button(st) ==
    [st EXCEPT !.cache_csv = <<>>, !.cache_metadata = <<>>,
               !.tools_data = <<>>, !.last_update = <<>>]

\* the dashboard state now
Dashboard ==
    [tools_data |-> tools_data, last_update |-> last_update,
     cache_csv |-> cache_csv, cache_metadata |-> cache_metadata]

\* the dashboard state after the run
Becomes(st) ==
    /\ tools_data' = st.tools_data
    /\ last_update' = st.last_update
    /\ cache_csv' = st.cache_csv
    /\ cache_metadata' = st.cache_metadata

\* Start Scraping is clicked: main() runs to the end of the handler, and
\* st.rerun() runs it once more
StartScraping ==
    /\ \E tools \in ScrapeResults, now \in Times :
          /\ Becomes(startup(scrape_button(startup(Dashboard), tools, now)))
          /\ clicked' = [kind |-> "scrape", result |-> tools]
    /\ UNCHANGED scrapervars

\* Clear Cache is clicked
ClearCache ==
    /\ Becomes(startup(clear_cache_button(startup(Dashboard))))
    /\ clicked' = [kind |-> "clear", result |-> <<>>]
    /\ UNCHANGED scrapervars

\* a dashboard session begins: the cache is what an earlier session left, a
\* saved scrape or nothing, and main() has run once
InitApp ==
    /\ driver = <<>>
    /\ sessions = {}
    /\ pc = [c \in Callers |-> "idle"]
    /\ frame = [c \in Callers |-> IdleFrame]
    /\ clicked = NotClicked
    /\ \E tools \in ScrapeResults, now \in Times :
          LET fresh == [tools_data |-> <<>>, last_update |-> <<>>,
                        cache_csv |-> <<>>, cache_metadata |-> <<>>]
              left == IF tools = <<>> THEN fresh
                      ELSE [fresh EXCEPT
                               !.cache_csv = <<to_csv(tools)>>,
                               !.cache_metadata =
                                   <<[last_update |-> now, tool_count |-> Len(tools)]>>]
              st == startup(left)
          IN  /\ tools_data = st.tools_data
              /\ last_update = st.last_update
              /\ cache_csv = st.cache_csv
              /\ cache_metadata = st.cache_metadata

NextApp == StartScraping \/ ClearCache

SpecApp == InitApp /\ [][NextApp]_vars

(* ------------------------------ properties ----------------------------- *)
Returned(c) == pc[c] = "returned"

\* C1: when an entry point has returned, on whatever path, the session the
\* call started has been quit and self.driver is None; with serialized calls
\* no session is open and the handle is None whenever no call is in flight.
C1_SessionClosedOnReturn ==
    /\ \A c \in Callers :
          Returned(c) =>
             /\ driver = <<>>
             /\ frame[c].sid # <<>> => frame[c].sid[1] \notin sessions
    /\ (\A c \in Callers : pc[c] \in {"idle", "returned"}) =>
          driver = <<>> /\ sessions = {}

\* a call that started a session and then failed has returned
C1_Witness ==
    \E c \in Callers :
        Returned(c) /\ frame[c].sid # <<>> /\ frame[c].fail \in {"navigation", "script"}

\* C2 (as stated): a failed session start, navigation or scripting call of
\* the scroll loop makes the entry point return an empty list, and no
\* exception reaches the caller.
C2_FailureGivesEmptyList ==
    \A c \in Callers :
        (Returned(c) /\ (frame[c].fail \in {"setup", "navigation", "script"}
                            \/ frame[c].swallowed = "script"))
           => frame[c].tools = <<>> /\ ~frame[c].raised

\* C2 (amended): no exception ever reaches the caller; a failed session
\* start, navigation, first height read, scrollTo or height read after a
\* scroll gives an empty list.  (A failure inside the load-more handling,
\* the height read after the click included, only ends the scrolling.)
C2_OuterFailureGivesEmptyList ==
    \A c \in Callers :
        Returned(c) =>
           /\ ~frame[c].raised
           /\ frame[c].fail \in {"setup", "navigation", "script"}
                 => frame[c].tools = <<>>

\* a call whose scroll loop met a failing execute_script has returned
C2_Witness ==
    \E c \in Callers :
        Returned(c) /\ frame[c].fail = "script" /\ frame[c].sid # <<>>

\* C3: every record an entry point returns has a non-empty name.
C3_NamesNonEmpty ==
    \A c \in Callers :
        Returned(c) =>
           \A i \in 1..Len(frame[c].tools) : frame[c].tools[i].name # <<>>

\* a is a sub-sequence of b
RECURSIVE IsSubSequence(_, _)
IsSubSequence(a, b) ==
    IF a = <<>> THEN TRUE
    ELSE IF b = <<>> THEN FALSE
    ELSE IF a[1] = b[1] THEN IsSubSequence(Tail(a), Tail(b))
    ELSE IsSubSequence(a, Tail(b))

\* an optional list argument is unset: None or empty
Unset(arg) == arg = <<>> \/ arg[1] = <<>>

\* some comma-split label of the joined field is among the wanted values
HasLabelIn(joined, wanted) ==
    LET labels == Split(joined, CommaSpace)
    IN  \E k \in 1..Len(labels) : \E j \in 1..Len(wanted) : labels[k] = wanted[j]

\* a scrape_by_category call has returned after parsing a document
FilteredReturn(c) ==
    /\ Returned(c)
    /\ frame[c].entry = "scrape_by_category"
    /\ frame[c].doc # <<>>

\* the unfiltered extraction of the document the call parsed
Unfiltered(c) == ExtractLoop(tool_cards(frame[c].doc[1]), <<>>)

\* C4 (as stated): the result of scrape_by_category(C, P) is a sub-sequence
\* of the unfiltered extraction, and each record has a category label in C
\* unless C is unset and a pricing label in P unless P is unset.
C4_FilterPredicate ==
    \A c \in Callers :
        FilteredReturn(c) =>
           /\ IsSubSequence(frame[c].tools, Unfiltered(c))
           /\ \A i \in 1..Len(frame[c].tools) :
                 /\ Unset(frame[c].categories)
                       \/ HasLabelIn(frame[c].tools[i].categories, frame[c].categories[1])
                 /\ Unset(frame[c].pricing_filters)
                       \/ HasLabelIn(frame[c].tools[i].pricing, frame[c].pricing_filters[1])

\* C4 (amended): as stated, except that a category list equal to the whole
\* CATEGORIES list is treated like an unset one (no category filtering).
C4_FilterPredicateAmended ==
    \A c \in Callers :
        FilteredReturn(c) =>
           /\ IsSubSequence(frame[c].tools, Unfiltered(c))
           /\ \A i \in 1..Len(frame[c].tools) :
                 /\ \/ Unset(frame[c].categories)
                    \/ frame[c].categories[1] = CATEGORIES
                    \/ HasLabelIn(frame[c].tools[i].categories, frame[c].categories[1])
                 /\ Unset(frame[c].pricing_filters)
                       \/ HasLabelIn(frame[c].tools[i].pricing, frame[c].pricing_filters[1])

\* both filters were given and kept some records and dropped others
C4_Witness ==
    \E c \in Callers :
        /\ FilteredReturn(c)
        /\ ~Unset(frame[c].categories) /\ frame[c].categories[1] # CATEGORIES
        /\ ~Unset(frame[c].pricing_filters)
        /\ frame[c].tools # <<>>
        /\ Len(frame[c].tools) < Len(Unfiltered(c))

\* an entry point without filters has returned a record for every card of
\* the document it parsed, so that tools[i] is the record of card i
AllCardsExtracted(c) ==
    /\ Returned(c)
    /\ frame[c].entry # "scrape_by_category"
    /\ frame[c].doc # <<>>
    /\ Len(frame[c].tools) = Len(tool_cards(frame[c].doc[1]))

\* the card's text contains the phrase and no pricing keyword besides
\* 'freemium' and 'free trial'
HasFreemiumTrialText(card) ==
    /\ Contains(AllText(card), <<"F","r","e","e","m","i","u","m",","," ","f","r","e","e"," ","t","r","i","a","l"," ","p","r","i","c","i","n","g"," ","a","v","a","i","l","a","b","l","e">>)
    /\ ~Contains(Lower(AllText(card)), <<"p","a","i","d">>)
    /\ ~Contains(Lower(AllText(card)), <<"o","p","e","n"," ","s","o","u","r","c","e">>)
    /\ ~Contains(Lower(AllText(card)), <<"g","i","t","h","u","b">>)

\* the records of the cards with that text
FreemiumTrialPricingIs(expected) ==
    \A c \in Callers :
        AllCardsExtracted(c) =>
           \A i \in 1..Len(frame[c].tools) :
               HasFreemiumTrialText(tool_cards(frame[c].doc[1])[i])
                  => frame[c].tools[i].pricing = expected

\* C5 (as stated): a card whose text contains "Freemium, free trial pricing
\* available" and no other pricing keyword gets pricing "Freemium, Free Trial".
C5_FreemiumThenFreeTrial == FreemiumTrialPricingIs(<<"F","r","e","e","m","i","u","m",","," ","F","r","e","e"," ","T","r","i","a","l">>)

\* C5 (amended): such a card gets pricing "Free Trial, Freemium": both labels,
\* in the order of the keyword table, and "Free" is not appended.
C5_FreeTrialThenFreemium == FreemiumTrialPricingIs(<<"F","r","e","e"," ","T","r","i","a","l",","," ","F","r","e","e","m","i","u","m">>)

\* a record of such a card has been returned
C5_Witness ==
    \E c \in Callers :
        /\ AllCardsExtracted(c)
        /\ \E i \in 1..Len(frame[c].tools) :
              HasFreemiumTrialText(tool_cards(frame[c].doc[1])[i])

\* every value of the list is outside the vocabulary
AllOutside(values, vocabulary) ==
    \A j \in 1..Len(values) : ~InList(values[j], vocabulary)

\* C6 (as stated): a category filter made only of values outside CATEGORIES,
\* or a pricing filter made only of values outside PRICING_FILTERS, yields an
\* empty result for every document.
C6_UnknownValuesMatchNothing ==
    \A c \in Callers :
        FilteredReturn(c) =>
           /\ (~Unset(frame[c].categories)
                  /\ AllOutside(frame[c].categories[1], CATEGORIES))
                 => frame[c].tools = <<>>
           /\ (~Unset(frame[c].pricing_filters)
                  /\ AllOutside(frame[c].pricing_filters[1], PRICING_FILTERS))
                 => frame[c].tools = <<>>

\* the pricing values _parse_tool_card can emit
EmittedPricing ==
    [i \in 1..Len(pricing_keywords) |-> pricing_keywords[i][2]]
    \o <<label_Free, CheckToolPage>>

\* no record of the unfiltered extraction carries one of the values among
\* its comma-split category labels
NoRecordCarries(c, values) ==
    LET records == Unfiltered(c)
    IN  \A i \in 1..Len(records) :
            LET labels == Split(records[i].categories, CommaSpace)
            IN  \A k \in 1..Len(labels) : ~InList(labels[k], values)

\* C6 (amended): filter values are compared uninterpreted with the record's
\* comma-split labels, whatever the vocabularies: a pricing filter made only
\* of values the extractor never emits yields an empty result for every
\* document, and a category filter (other than the CATEGORIES list itself)
\* made only of values no record of the document carries yields an empty
\* result.
C6_UnmatchedValuesMatchNothing ==
    \A c \in Callers :
        FilteredReturn(c) =>
           /\ (~Unset(frame[c].pricing_filters)
                  /\ AllOutside(frame[c].pricing_filters[1], EmittedPricing))
                 => frame[c].tools = <<>>
           /\ (~Unset(frame[c].categories)
                  /\ frame[c].categories[1] # CATEGORIES
                  /\ NoRecordCarries(c, frame[c].categories[1]))
                 => frame[c].tools = <<>>

\* a filter of values nothing carries has emptied a non-empty extraction
C6_Witness ==
    \E c \in Callers :
        /\ FilteredReturn(c)
        /\ Unfiltered(c) # <<>>
        /\ frame[c].tools = <<>>
        /\ \/ /\ ~Unset(frame[c].pricing_filters)
              /\ AllOutside(frame[c].pricing_filters[1], EmittedPricing)
              /\ Unset(frame[c].categories)
           \/ /\ ~Unset(frame[c].categories)
              /\ AllOutside(frame[c].categories[1], CATEGORIES)
              /\ NoRecordCarries(c, frame[c].categories[1])
              /\ Unset(frame[c].pricing_filters)

InLoop(c) == pc[c] \in {"scroll", "scrolled"}

\* the scroll attempts never exceed the budget, and a loop that used up the
\* budget has ended without an error
BudgetRespected ==
    \A c \in Callers :
        /\ InLoop(c) => frame[c].attempts <= frame[c].max_scrolls
        /\ (pc[c] = "scrolled" /\ frame[c].exit = "budget") =>
              /\ frame[c].attempts = frame[c].max_scrolls
              /\ frame[c].fail = "none" /\ ~frame[c].raised

\* every step of the loop ends it or uses up one unit of the budget, and
\* whatever ended the loop the caller goes on to page_source and parsing
LoopProgress ==
    \A c \in Callers :
        /\ (pc[c] = "scroll" /\ pc'[c] = "scroll" /\ frame'[c] # frame[c]) =>
              /\ frame'[c].scrolls = frame[c].scrolls + 1
              /\ frame'[c].max_scrolls = frame[c].max_scrolls
        /\ (pc[c] = "scrolled" /\ pc'[c] # "scrolled") =>
              /\ pc'[c] = "source"
              /\ frame'[c].fail = "none"
              /\ frame'[c].tools = <<>>

\* C7: whatever the page does, _scroll_to_load_all makes at most max_scrolls
\* scroll attempts, each iteration brings it nearer to the budget, and a loop
\* ended by the budget returns normally to the caller, which goes on to parse
\* as after a stable page.
C7_ScrollBudget == []BudgetRespected /\ [][LoopProgress]_vars

\* the long budget was used up on a page whose height changed at each of the
\* last attempts
C7_Witness ==
    \E c \in Callers :
        /\ pc[c] = "scrolled"
        /\ frame[c].exit = "budget"
        /\ frame[c].max_scrolls = DefaultBudget
        /\ frame[c].hist = <<"C", "C", "C">>

\* C10: three consecutive attempts with an unchanged height and no load-more
\* control clicked end the loop at the third of them; and the loop ends before
\* the budget is used up only when the last three attempts all saw an
\* unchanged height.
C10_StableAfterThreeUnchanged ==
    \A c \in Callers :
        /\ pc[c] = "scroll" => frame[c].hist # <<"U", "U", "U">>
        /\ (pc[c] = "scrolled" /\ frame[c].exit # "budget") =>
              /\ frame[c].hist = <<"U", "U", "U">>
              /\ frame[c].no_change_count = StableLimit
              /\ frame[c].scrolls < frame[c].max_scrolls
              /\ frame[c].attempts = frame[c].scrolls + 1

\* the loop stopped on a stable page with most of the long budget unused,
\* after an earlier change of height
C10_Witness ==
    \E c \in Callers :
        /\ pc[c] = "scrolled"
        /\ frame[c].exit = "stable"
        /\ frame[c].max_scrolls = DefaultBudget
        /\ frame[c].attempts = StableLimit + 2

\* an entry point without filters has returned after parsing a document
UnfilteredReturn(c) ==
    /\ Returned(c)
    /\ frame[c].entry # "scrape_by_category"
    /\ frame[c].doc # <<>>

\* extraction of the card succeeds: nothing raises and a name element exists
ExtractionSucceeds(card) == ~card.fault /\ NameElems(card) # <<>>

\* C8: a card whose extraction raises contributes no record and the other
\* cards are still extracted: the returned list holds, in document order, one
\* record for each card whose extraction succeeded, and nothing else.
C8_FailedCardSkipped ==
    \A c \in Callers :
        UnfilteredReturn(c) =>
           LET good == SelectSeq(tool_cards(frame[c].doc[1]), ExtractionSucceeds)
           IN  /\ Len(frame[c].tools) = Len(good)
               /\ \A i \in 1..Len(good) :
                     _parse_tool_card(good[i]) = <<frame[c].tools[i]>>

\* a document whose first card raises and whose second card is extracted
C8_Witness ==
    \E c \in Callers :
        /\ UnfilteredReturn(c)
        /\ Len(tool_cards(frame[c].doc[1])) = 2
        /\ tool_cards(frame[c].doc[1])[1].fault
        /\ Len(frame[c].tools) = 1

\* the labels the pricing field may be made of (spec section 3)
PricingVocabulary ==
    {<<"P","a","i","d">>, <<"F","r","e","e"," ","T","r","i","a","l">>, <<"F","r","e","e","m","i","u","m">>, <<"O","p","e","n"," ","S","o","u","r","c","e">>, <<"G","i","t","H","u","b">>, <<"F","r","e","e">>}

\* a non-empty comma-joined list of non-blank (stripped) labels: the text is
\* not empty and neither starts nor ends with white space
JoinedLabels(joined) ==
    /\ joined # <<>>
    /\ Strip(joined) = joined

\* a non-empty comma-joined list of distinct labels of the vocabulary
JoinedPricing(joined) ==
    LET labels == Split(joined, CommaSpace)
    IN  /\ \A k \in 1..Len(labels) : labels[k] \in PricingVocabulary
        /\ \A j, k \in 1..Len(labels) : labels[j] = labels[k] => j = k

\* C9: in every returned record categories and pricing are not empty:
\* categories is a comma-joined list of non-blank labels or "Uncategorized",
\* pricing a comma-joined list of vocabulary labels or "Check tool page".
C9_FieldsNeverEmpty ==
    \A c \in Callers :
        Returned(c) =>
           \A i \in 1..Len(frame[c].tools) :
               /\ frame[c].tools[i].categories # <<>>
               /\ frame[c].tools[i].pricing # <<>>
               /\ JoinedLabels(frame[c].tools[i].categories)
               /\ \/ frame[c].tools[i].pricing = CheckToolPage
                  \/ JoinedPricing(frame[c].tools[i].pricing)

\* a returned list with both sentinels in one record and real values in
\* another
C9_Witness ==
    \E c \in Callers :
        /\ Returned(c)
        /\ \E i, j \in 1..Len(frame[c].tools) :
              /\ frame[c].tools[i].categories = Uncategorized
              /\ frame[c].tools[i].pricing = CheckToolPage
              /\ frame[c].tools[j].categories # Uncategorized
              /\ Len(Split(frame[c].tools[j].pricing, CommaSpace)) = 2

\* the step is an iteration of c's scroll loop that met one of the controls
\* at its load-more lookup
LookupStep(c, controls) ==
    /\ pc[c] = "scroll"
    /\ frame'[c].attempts = frame[c].attempts + 1
    /\ frame'[c].met \in controls

\* the iteration clicked once, reset the counter and left the loop running
ClickedAndContinued(c) ==
    /\ pc'[c] = "scroll"
    /\ frame'[c].clicks = frame[c].clicks + 1
    /\ frame'[c].no_change_count = 0
    /\ frame'[c].scrolls = frame[c].scrolls + 1
    /\ frame'[c].exit = "none"

\* C11 (as stated): when the third consecutive unchanged attempt finds a
\* load-more control present and visible, the loop does not stop: it clicks
\* the control once, resets the counter and goes on.
C11_VisibleControlContinues ==
    [][\A c \in Callers :
          LookupStep(c, {"visible", "click_raises", "reread_raises"})
             => ClickedAndContinued(c)]_vars

\* C11 (amended): so it is when the click and the height read after it
\* succeed; when one of them raises, the loop stops at once and its caller
\* goes on as after a stable page.  After the click the loop runs again
\* exactly while budget remains.
C11_ClickedControlContinues ==
    [][\A c \in Callers :
          /\ LookupStep(c, {"visible"}) => ClickedAndContinued(c)
          /\ LookupStep(c, {"click_raises", "reread_raises"}) =>
                /\ pc'[c] = "scrolled"
                /\ frame'[c].exit = "swallowed"
                /\ frame'[c].fail = "none"
          /\ (pc[c] = "scroll" /\ frame[c].met = "visible") =>
                (ENABLED ScrollIter(c) <=> frame[c].scrolls < frame[c].max_scrolls)]_vars

\* a visible control was clicked with budget left and the loop went on to a
\* further attempt
C11_Witness ==
    \E c \in Callers :
        /\ pc[c] = "scroll"
        /\ frame[c].clicks = 1
        /\ frame[c].hist = <<"U", "K", "C">>

\* C15: in one run of the loop the load-more control is clicked at most
\* floor(N/3) times for a budget of N: every click takes three attempts.
C15_ClicksBounded ==
    \A c \in Callers :
        InLoop(c) =>
           /\ StableLimit * frame[c].clicks <= frame[c].attempts
           /\ frame[c].clicks <= frame[c].max_scrolls \div StableLimit

\* the short budget of 10 was used with the most clicks it allows
C15_Witness ==
    \E c \in Callers :
        /\ pc[c] = "scrolled"
        /\ frame[c].max_scrolls = NewlyAddedBudget
        /\ frame[c].clicks = NewlyAddedBudget \div StableLimit

\* the selector strategies that match some element of the document
Matching(doc) == {k \in 1..5 : \E i \in 1..Len(doc) : k \in doc[i].sels}

\* the first of them in the order of the cascade
FirstMatching(doc) == CHOOSE k \in Matching(doc) : \A j \in Matching(doc) : k <= j

\* c has parsed a page and gone through its cards
Parsed(c) == pc[c] \in {"finally", "returned"} /\ frame[c].doc # <<>>

\* C13: the card list is what the first matching selector strategy finds and
\* nothing else; when no strategy matches it is empty and the entry point
\* returns an empty list without an error.
C13_FirstStrategyOnly ==
    \A c \in Callers :
        Parsed(c) =>
           LET doc == frame[c].doc[1]
               cards == frame[c].tool_cards
           IN  IF Matching(doc) = {}
               THEN /\ cards = <<>>
                    /\ frame[c].tools = <<>>
                    /\ frame[c].fail = "none"
                    /\ ~frame[c].raised
               ELSE /\ cards = FindAll(doc, FirstMatching(doc))
                    /\ \A i \in 1..Len(doc) :
                          FirstMatching(doc) \notin doc[i].sels =>
                             \A j \in 1..Len(cards) :
                                cards[j] # doc[i].card \/
                                \E m \in 1..Len(doc) :
                                   /\ doc[m].card = cards[j]
                                   /\ FirstMatching(doc) \in doc[m].sels

\* a page whose first element matches only the last strategy and whose second
\* matches an earlier one: the card list is the second element alone
C13_Witness ==
    \E c \in Callers :
        /\ Returned(c)
        /\ frame[c].doc # <<>>
        /\ Len(frame[c].doc[1]) = 2
        /\ frame[c].doc[1][1].sels = {5}
        /\ frame[c].doc[1][2].sels = {2, 3}
        /\ frame[c].tool_cards = <<card_plain>>

\* the non-blank texts that are not in skip, stripped, each at its first
\* occurrence and in the order of those occurrences
FirstSeen(texts, skip) ==
    LET s == [i \in 1..Len(texts) |-> Strip(texts[i])]
        keep == {i \in 1..Len(texts) :
                    /\ s[i] # <<>>
                    /\ \A k \in 1..Len(skip) : s[i] # skip[k]
                    /\ \A j \in 1..(i - 1) : s[j] # s[i]}
        Nth(n) == CHOOSE i \in keep : Cardinality({j \in keep : j < i}) = n - 1
    IN  [n \in 1..Cardinality(keep) |-> s[Nth(n)]]

\* the label elements of the card's category-list container: those of the
\* first label class when the container has any, else those of the second
ContainerTexts(card) ==
    IF card.container = <<>> THEN <<>>
    ELSE IF Len(card.container[1].tb53) > 0 THEN card.container[1].tb53
    ELSE card.container[1].gc

\* the texts of the card's tag-filter links
TagLinkTexts(card) ==
    LET isTag(a) == Contains(a.href, tags_marker)
        links == SelectSeq(card.anchors, isTag)
    IN  [i \in 1..Len(links) |-> links[i].text]

\* the categories field the claim gives the card
ExpectedCategories(card) ==
    LET fromContainer == FirstSeen(ContainerTexts(card), <<>>)
        fromLinks == FirstSeen(TagLinkTexts(card), <<placeholder_category>>)
    IN  IF fromContainer # <<>> THEN Join(fromContainer, CommaSpace)
        ELSE IF fromLinks # <<>> THEN Join(fromLinks, CommaSpace)
        ELSE Uncategorized

\* C14: a record's categories are the labels of the category-list container
\* (of its first label class, else of the second), and only when that gives
\* no non-blank label the texts of the tag-filter links without blanks and
\* the placeholder 'category'; repeated labels are dropped keeping the order
\* of first occurrence, container labels [Chat, Productivity, Chat] give
\* "Chat, Productivity", and the two sources are never combined.
C14_FirstCategorySource ==
    \A c \in Callers :
        UnfilteredReturn(c) =>
           LET good == SelectSeq(frame[c].tool_cards, ExtractionSucceeds)
               tools == frame[c].tools
           IN  /\ Len(tools) = Len(good)
               /\ \A i \in 1..Len(good) :
                     /\ tools[i].categories = ExpectedCategories(good[i])
                     /\ ContainerTexts(good[i]) = <<<<"C","h","a","t">>, <<"P","r","o","d","u","c","t","i","v","i","t","y">>, <<"C","h","a","t">>>>
                           => tools[i].categories = <<"C","h","a","t",","," ","P","r","o","d","u","c","t","i","v","i","t","y">>
                     /\ FirstSeen(ContainerTexts(good[i]), <<>>) # <<>> =>
                           \A k \in 1..Len(TagLinkTexts(good[i])) :
                              ~InList(Strip(TagLinkTexts(good[i])[k]),
                                      FirstSeen(ContainerTexts(good[i]), <<>>))
                                 => ~InList(Strip(TagLinkTexts(good[i])[k]),
                                            Split(tools[i].categories, CommaSpace))

\* a returned record made from a card that has the container labels
\* [Chat, Productivity, Chat] and a tag link with another label
C14_Witness ==
    \E c \in Callers :
        /\ UnfilteredReturn(c)
        /\ \E i \in 1..Len(frame[c].tools) :
              /\ frame[c].tools[i].categories = <<"C","h","a","t",","," ","P","r","o","d","u","c","t","i","v","i","t","y">>
              /\ frame[c].tool_cards[i] = card_chat
              /\ TagLinkTexts(card_chat) = <<<<"M","a","r","k","e","t","i","n","g">>>>

\* c's _setup_driver returns in this step
SetupReturns(c) == pc[c] = "setup" /\ pc'[c] = "get"

\* C12: a call that begins while another is in flight starts its own session
\* and puts it in the one handle without releasing the session the handle
\* referred to; no later step of either call closes a session the handle has
\* lost, so it stays open after both calls have returned.
C12_SecondCallOverwritesHandle ==
    [][/\ \A c \in Callers :
             SetupReturns(c) =>
                /\ frame'[c].sid # <<>>
                /\ frame'[c].sid[1] \notin sessions
                /\ driver' = frame'[c].sid
                /\ sessions' = sessions \cup {frame'[c].sid[1]}
       /\ \A s \in sessions :
             (driver = <<>> \/ driver[1] # s) => s \in sessions']_vars

\* both calls have returned and the session the first call started is open,
\* with no handle left to close it
C12_Witness ==
    /\ Returned(MainCaller)
    /\ Returned(SecondCaller)
    /\ frame[MainCaller].sid # <<>>
    /\ frame[MainCaller].sid[1] \in sessions
    /\ frame[SecondCaller].sid # <<>>
    /\ frame[SecondCaller].sid # frame[MainCaller].sid
    /\ driver = <<>>

\* the dashboard holds the scrape result tools, saved at some time
HoldsScrape(tools) ==
    /\ tools # <<>>
    /\ tools_data' = tools
    /\ cache_csv' = <<to_csv(tools)>>
    /\ cache_metadata' # <<>>
    /\ cache_metadata'[1].tool_count = Len(tools)
    /\ cache_metadata'[1].tool_count = Len(cache_csv'[1])
    /\ last_update' = <<cache_metadata'[1].last_update>>

\* records, files and times are all gone
AllRemoved ==
    /\ tools_data' = <<>>
    /\ last_update' = <<>>
    /\ cache_csv' = <<>>
    /\ cache_metadata' = <<>>

DashboardData == <<tools_data, last_update, cache_csv, cache_metadata>>

\* C16: a scrape that returns no records changes neither the record list in
\* memory nor the cache file nor the metadata; a scrape that returns records
\* replaces all of them, with tool_count the number of records written;
\* Clear Cache removes all of them; and nothing else changes them.
C16_CacheChangesOnlyByScrapeOrClear ==
    [][/\ (clicked'.kind = "scrape" /\ clicked'.result = <<>>)
             => UNCHANGED DashboardData
       /\ (clicked'.kind = "scrape" /\ clicked'.result # <<>>)
             => HoldsScrape(clicked'.result)
       /\ clicked'.kind = "clear" => AllRemoved
       /\ DashboardData' # DashboardData =>
             \/ clicked'.kind = "scrape" /\ HoldsScrape(clicked'.result)
             \/ clicked'.kind = "clear" /\ AllRemoved]_vars

\* a scrape has returned nothing and the dashboard still holds the two
\* records and the cache of the scrape before
C16_Witness ==
    /\ clicked.kind = "scrape"
    /\ clicked.result = <<>>
    /\ Len(tools_data) = 2
    /\ cache_csv = <<to_csv(tools_data)>>
    /\ cache_metadata # <<>>
    /\ cache_metadata[1].tool_count = 2
    /\ last_update = <<cache_metadata[1].last_update>>

=============================================================================
